---- MODULE Spec2Model ----
(***************************************************************************)
(* A model of main.py: the bounded retry wrapper, the duration based audio *)
(* splitter, the URL validator and the staged pipeline                     *)
(* process_youtube_video that sequences them.                              *)
(*                                                                         *)
(* Three specifications share the variables:                               *)
(*   SpecRetry  retry() applied to an arbitrary fallible function          *)
(*   SpecSplit  split_long_audio() applied to an arbitrary sample buffer   *)
(*   Spec       process_youtube_video() on an arbitrary locator            *)
(***************************************************************************)
EXTENDS Integers, Sequences, FiniteSets, TLC

VARIABLES
    pc,              \* position of the thread of control
    youtube_url,     \* the locator given to process_youtube_video
    rt,              \* the frame of the retry() call in progress
    outcomes,        \* what each call of func did, for the retry() in progress
    fragments,       \* the texts the transcription collaborator returned
    sp,              \* the frame of the split_long_audio() call in progress
    audio,           \* the decoded buffer behind audio_file: samples, rate
    audio_file,      \* process_youtube_video's local audio_file
    audio_segments,  \* process_youtube_video's local audio_segments
    seg,             \* number of segments the transcription loop has finished
    full_transcript, \* process_youtube_video's local full_transcript
    cleaned_text,    \* process_youtube_video's local cleaned_text
    files,           \* the files written during this run
    calls,           \* invocations of every function and collaborator
    gates,           \* number of input() prompts answered
    printed          \* the diagnostics printed by process_youtube_video

vars == <<pc, youtube_url, rt, outcomes, fragments, sp, audio, audio_file,
          audio_segments, seg,
          full_transcript, cleaned_text, files, calls, gates, printed>>

----------------------------------------------------------------------------
(* Bounds of the model *)

\* largest max_attempts handed to retry() in SpecRetry
MaxAttempts == 5

\* largest number of samples of a buffer in SpecSplit
MaxSamples == 12

\* largest sample rate in SpecSplit
MaxRate == 2

\* largest max_duration (seconds) in SpecSplit
MaxWindow == 3

\* largest number of whole max_duration windows of a downloaded asset in Spec
MaxWindows == 2

----------------------------------------------------------------------------
(* Python values *)

\* Python's None, and a value that is not None.  Results are inspected with
\* IsNone, the model's "is None".
None == [none |-> TRUE, val |-> "None"]

Some(v) == [none |-> FALSE, val |-> v]

IsNone(x) == x.none

\* an outcome of one call of a function: it raised, or it returned value
Raised == [raised |-> TRUE, value |-> None]

Returned(v) == [raised |-> FALSE, value |-> v]

----------------------------------------------------------------------------
(* retry(func, max_attempts=3, wait_time=5, *args)            main.py:19-32 *)

\* the frame when no retry() call is in progress
NoRetry ==
    [func |-> "none", max_attempts |-> 0, wait_time |-> 0, attempt |-> 0,
     log |-> <<>>, slept |-> 0, status |-> "idle", result |-> None]

\* entry of retry(): attempt = 0.  log records, in order, every call of func
\* ("raise" or "return", by its outcome) and every time.sleep ("sleep").
RetryStart(func, max_attempts, wait_time) ==
    [func |-> func, max_attempts |-> max_attempts, wait_time |-> wait_time,
     attempt |-> 0, log |-> <<>>, slept |-> 0, status |-> "running",
     result |-> None]

\* the plausible slip: the pause is taken after the last failure as well
retry_SleepAfterLast(r, o) ==
    IF ~o.raised
    THEN [r EXCEPT !.log = Append(@, "return"), !.status = "returned",
                   !.result = o.value]
    ELSE [r EXCEPT !.attempt = @ + 1,
                   !.log = @ \o <<"raise", "sleep">>,
                   !.slept = @ + r.wait_time,
                   !.status = IF r.attempt + 1 < r.max_attempts
                              THEN "running" ELSE "returned",
                   !.result = None]

\* the plausible slip: a successful call is not returned, the loop goes on
retry_NoEarlyReturn(r, o) ==
    IF ~o.raised
    THEN [r EXCEPT !.log = Append(@, "return"), !.attempt = @ + 1,
                   !.status = IF r.attempt + 1 < r.max_attempts
                              THEN "running" ELSE "returned",
                   !.result = o.value]
    ELSE IF r.attempt + 1 < r.max_attempts
         THEN [r EXCEPT !.attempt = @ + 1,
                        !.log = @ \o <<"raise", "sleep">>,
                        !.slept = @ + r.wait_time]
         ELSE [r EXCEPT !.attempt = @ + 1,
                        !.log = Append(@, "raise"),
                        !.status = "returned", !.result = None]

\* one iteration of the while loop, entered with attempt < max_attempts:
\* func is called and its outcome is o.
retry(r, o) ==
    IF ~o.raised
    THEN \* line 23: return func(*args, **kwargs)
         [r EXCEPT !.log = Append(@, "return"), !.status = "returned",
                   !.result = o.value]
    ELSE \* lines 24-32
         IF r.attempt + 1 < r.max_attempts
         THEN [r EXCEPT !.attempt = @ + 1,
                        !.log = @ \o <<"raise", "sleep">>,
                        !.slept = @ + r.wait_time]
         ELSE [r EXCEPT !.attempt = @ + 1,
                        !.log = Append(@, "raise"),
                        !.status = "returned", !.result = None]

\* the while condition holds and the call has not returned
RetryRunning == rt.status = "running" /\ rt.attempt < rt.max_attempts

\* number of events of kind e in a log
RECURSIVE Count(_, _)
Count(log, e) ==
    IF log = <<>> THEN 0
    ELSE (IF log[1] = e THEN 1 ELSE 0) + Count(Tail(log), e)

Invocations(r) == Count(r.log, "raise") + Count(r.log, "return")

Pauses(r) == Count(r.log, "sleep")

----------------------------------------------------------------------------
(* is_valid_youtube_url(url)                                  main.py:50-55 *)

\* Strings are sequences of one-character strings.
LitHttp == <<"h", "t", "t", "p", ":", "/", "/">>

LitHttps == <<"h", "t", "t", "p", "s", ":", "/", "/">>

LitWww == <<"w", "w", "w", ".">>

LitWatch ==
    <<"y", "o", "u", "t", "u", "b", "e", ".", "c", "o", "m", "/",
      "w", "a", "t", "c", "h", "?", "v", "=">>

LitShort == <<"y", "o", "u", "t", "u", ".", "b", "e", "/">>

LitFtp == <<"f", "t", "p", ":", "/", "/">>

LitOther == <<"v", "i", "m", "e", "o", ".", "c", "o", "m", "/">>

LitNotAUrl == <<"n", "o", "t", "-", "a", "-", "u", "r", "l">>

LitTail == <<"&", "t", "=", "1", "s">>

\* the character class [a-zA-Z0-9_-]
IdChars ==
    {"a", "b", "c", "d", "e", "f", "g", "h", "i", "j", "k", "l", "m",
     "n", "o", "p", "q", "r", "s", "t", "u", "v", "w", "x", "y", "z",
     "A", "B", "C", "D", "E", "F", "G", "H", "I", "J", "K", "L", "M",
     "N", "O", "P", "Q", "R", "S", "T", "U", "V", "W", "X", "Y", "Z",
     "0", "1", "2", "3", "4", "5", "6", "7", "8", "9", "_", "-"}

\* the length of the video id the pattern asks for: {11}
IdLen == 11

\* the positions the matcher can stand at after reading lit from a position
\* of P (positions are 1-based indexes of the next character to read)
After(s, P, lit) ==
    {p + Len(lit) : p \in {q \in P : /\ q + Len(lit) - 1 <= Len(s)
                                     /\ SubSeq(s, q, q + Len(lit) - 1) = lit}}

\* re.match(youtube_regex, url) is not None: the pattern is matched from the
\* start of url, and nothing is asked of what follows the match.
is_valid_youtube_url(url) ==
    LET P0 == {1}
        \* (https?://)?
        P1 == P0 \cup After(url, P0, LitHttp) \cup After(url, P0, LitHttps)
        \* (www\.)?
        P2 == P1 \cup After(url, P1, LitWww)
        \* (youtube\.com/watch\?v=|youtu\.be/)
        P3 == After(url, P2, LitWatch) \cup After(url, P2, LitShort)
    IN  \* ([a-zA-Z0-9_-]{11})
        \E p \in P3 : /\ p + IdLen - 1 <= Len(url)
                      /\ \A j \in 0 .. IdLen - 1 : url[p + j] \in IdChars

\* an id of n characters
VideoId(n) == [i \in 1 .. n |-> IF i % 2 = 0 THEN "Q" ELSE "x"]

\* the locators process_youtube_video is run on
Urls ==
    {LitHttps \o LitWww \o LitWatch \o VideoId(IdLen),
     LitShort \o VideoId(IdLen),
     LitHttp \o LitShort \o VideoId(IdLen) \o LitTail,
     LitShort \o VideoId(IdLen + 1),
     LitNotAUrl,
     LitHttps \o LitWww \o LitWatch \o VideoId(IdLen - 1),
     LitFtp \o LitWatch \o VideoId(IdLen),
     LitHttps \o LitOther \o VideoId(IdLen),
     <<>>}

----------------------------------------------------------------------------
(* split_long_audio(audio_path, max_duration=600)             main.py:79-95 *)

Min(a, b) == IF a <= b THEN a ELSE b

\* math.ceil(a / b) for integers a >= 0, b > 0
CeilDiv(a, b) == (a + b - 1) \div b

\* data[start:end] for 0 <= start <= end: Python clamps both to len(data)
Slice(data, start, end) ==
    SubSeq(data, Min(start, Len(data)) + 1, Min(end, Len(data)))

\* the default of the max_duration parameter
DefaultMaxDuration == 600

\* the slip of an inclusive upper end: each segment repeats the first sample
\* of the next one
split_long_audio_Overlap(data, sample_rate, max_duration) ==
    IF Len(data) > max_duration * sample_rate
    THEN [i \in 1 .. CeilDiv(Len(data), max_duration * sample_rate) |->
            [path |-> i,
             samples |-> Slice(data, (i - 1) * max_duration * sample_rate,
                               i * max_duration * sample_rate + 1)]]
    ELSE <<[path |-> 0, samples |-> data]>>

\* the slip of a strict-versus-inclusive comparison: an asset of exactly
\* max_duration seconds is split (into one written segment)
split_long_audio_SplitAtEqual(data, sample_rate, max_duration) ==
    IF Len(data) >= max_duration * sample_rate
    THEN [i \in 1 .. CeilDiv(Len(data), max_duration * sample_rate) |->
            [path |-> i,
             samples |-> Slice(data, (i - 1) * max_duration * sample_rate,
                               i * max_duration * sample_rate)]]
    ELSE <<[path |-> 0, samples |-> data]>>

\* the slip of a segment count of floor + 1 in place of the ceiling: an
\* asset of whole windows gets one more, empty, segment
split_long_audio_ExtraSegment(data, sample_rate, max_duration) ==
    IF Len(data) > max_duration * sample_rate
    THEN [i \in 1 .. (Len(data) \div (max_duration * sample_rate)) + 1 |->
            [path |-> i,
             samples |-> Slice(data, (i - 1) * max_duration * sample_rate,
                               i * max_duration * sample_rate)]]
    ELSE <<[path |-> 0, samples |-> data]>>

\* The list split_long_audio returns when no read or write raises.  A
\* segment is [path, samples]: path 0 is audio_path itself, path i >= 1 is
\* audio_path + "_segment_i.wav", which the function has written.
\* duration = len(data) / sample_rate is a floating point quotient; for
\* integer sample_rate and max_duration and fewer than 2^53 samples,
\* duration > max_duration is len(data) > max_duration * sample_rate and
\* math.ceil(duration / max_duration) is the integer ceiling below.
split_long_audio(data, sample_rate, max_duration) ==
    IF Len(data) > max_duration * sample_rate
    THEN [i \in 1 .. CeilDiv(Len(data), max_duration * sample_rate) |->
            [path |-> i,
             samples |-> Slice(data, (i - 1) * max_duration * sample_rate,
                               i * max_duration * sample_rate)]]
    ELSE <<[path |-> 0, samples |-> data]>>

\* a buffer of n samples, every sample distinct
Samples(n) == [i \in 1 .. n |-> i]

\* the frame when no split_long_audio() call is under test
NoSplit ==
    [data |-> <<>>, sample_rate |-> 0, max_duration |-> 0,
     status |-> "idle", segments |-> <<>>, written |-> <<>>]

\* the files a list of segments stands for: those with a segment path
Written(segments) == SelectSeq(segments, LAMBDA s : s.path > 0)

----------------------------------------------------------------------------
(* The collaborators, as the functions handed to retry() see them *)

\* the name download_audio gives the file, and the id of the video
AudioPath == "audio.wav"

VideoIdOf == "id"

\* the slip of a download_audio without its own try/except: the failure of
\* the download collaborator reaches retry()
download_audio_Raises(ok) ==
    IF ok THEN Returned(Some(<<Some(AudioPath), Some(VideoIdOf)>>))
    ELSE Raised

\* download_audio(youtube_url), main.py:58-76: ok tells whether
\* ydl.extract_info succeeded.  Its failure is caught inside the function,
\* which then returns the pair (None, None): the function never raises.
download_audio(ok) ==
    IF ok THEN Returned(Some(<<Some(AudioPath), Some(VideoIdOf)>>))
    ELSE Returned(Some(<<None, None>>))

\* the texts the transcription collaborator returns for a segment
Fragments == {<<"a">>, <<"b">>}

\* transcribe_audio_with_eta(audio_path), main.py:98-107: nothing is caught,
\* a failure of the model load or of the transcription is raised.
transcribe_audio_with_eta(ok, text) ==
    IF ok THEN Returned(Some(text)) ELSE Raised

\* the texts the cleanup collaborator returns for a text
CleanOutputs(text) == {<<"c">> \o text, text}

\* the slip of a fallback that returns an empty text
clean_text_EmptyFallback(text, ok, generated) ==
    IF ok THEN Returned(Some(generated)) ELSE Returned(Some(<<>>))

\* clean_text(text), main.py:110-119: ok tells whether the cleanup
\* collaborator succeeded and generated is what it produced.  Its failure
\* is caught inside the function, which then returns text unchanged.
clean_text(text, ok, generated) ==
    IF ok THEN Returned(Some(generated)) ELSE Returned(Some(text))

\* the retry budget and pause process_youtube_video passes at its three
\* call sites (lines 129, 143, 151)
PipelineAttempts == 3

PipelineWait == 5

----------------------------------------------------------------------------
(* State of process_youtube_video *)

NoAudio == [present |-> FALSE, n |-> 0, rate |-> 0]

\* the assets a download can produce: k whole windows of max_duration
\* seconds, or one sample more
Assets ==
    {[present |-> TRUE, n |-> k * DefaultMaxDuration * r + d, rate |-> r] :
        k \in 0 .. MaxWindows, d \in {0, 1}, r \in {1}}

\* what the pipeline keeps of a segment: its path and its extent
Summary(s) ==
    [path |-> s.path,
     first |-> IF s.samples = <<>> THEN 0 ELSE s.samples[1],
     count |-> Len(s.samples)]

SummaryOf(segments) == [i \in 1 .. Len(segments) |-> Summary(segments[i])]

NoFiles ==
    [audio |-> FALSE, segments |-> <<>>, transcript |-> None,
     cleaned |-> None]

NoCalls ==
    [validate |-> 0, download |-> 0, quality |-> 0, split |-> 0,
     transcribe |-> <<>>, clean |-> 0, cleanFailed |-> 0,
     downloadFailed |-> 0]

\* the state at the entry of process_youtube_video(youtube_url)
Init ==
    /\ pc = "Validating"
    /\ youtube_url \in Urls
    /\ rt = NoRetry
    /\ outcomes = <<>>
    /\ fragments = <<>>
    /\ sp = NoSplit
    /\ audio = NoAudio
    /\ audio_file = None
    /\ audio_segments = <<>>
    /\ seg = 0
    /\ full_transcript = <<>>
    /\ cleaned_text = None
    /\ files = NoFiles
    /\ calls = NoCalls
    /\ gates = 0
    /\ printed = {}

----------------------------------------------------------------------------
(* process_youtube_video(youtube_url)                       main.py:122-172 *)

\* the slip of a missing return after the message of line 126
Validate_GoesOn ==
    /\ pc = "Validating"
    /\ calls' = [calls EXCEPT !.validate = @ + 1]
    /\ pc' = "Downloading"
    /\ rt' = RetryStart("download_audio", PipelineAttempts, PipelineWait)
    /\ printed' = IF is_valid_youtube_url(youtube_url) THEN printed
                  ELSE printed \cup {"invalid url"}
    /\ outcomes' = <<>>
    /\ UNCHANGED <<fragments,
                   youtube_url, sp, audio, audio_file, audio_segments, seg,
                   full_transcript, cleaned_text, files, gates>>

\* lines 125-127 and the entry of retry() of line 129
Validate ==
    /\ pc = "Validating"
    /\ calls' = [calls EXCEPT !.validate = @ + 1]
    /\ IF is_valid_youtube_url(youtube_url)
       THEN /\ pc' = "Downloading"
            /\ rt' = RetryStart("download_audio", PipelineAttempts,
                                PipelineWait)
            /\ printed' = printed
       ELSE /\ pc' = "Failed"
            /\ printed' = printed \cup {"invalid url"}
            /\ rt' = rt
    /\ outcomes' = <<>>
    /\ UNCHANGED <<fragments,
                   youtube_url, sp, audio, audio_file, audio_segments, seg,
                   full_transcript, cleaned_text, files, gates>>

\* one iteration of retry(download_audio, 3, 5, youtube_url)
DownloadAttempt ==
    /\ pc = "Downloading"
    /\ RetryRunning
    /\ \E ok \in BOOLEAN :
         /\ rt' = retry(rt, download_audio(ok))
         /\ outcomes' = Append(outcomes, download_audio(ok))
         /\ calls' = [calls EXCEPT
                        !.download = @ + 1,
                        !.downloadFailed = IF ok THEN @ ELSE @ + 1]
         /\ IF ok
            THEN /\ \E a \in Assets : audio' = a
                 /\ files' = [files EXCEPT !.audio = TRUE]
            ELSE UNCHANGED <<audio, files>>
    /\ UNCHANGED <<fragments,
                   pc, youtube_url, sp, audio_file, audio_segments, seg,
                   full_transcript, cleaned_text, gates, printed>>

\* the slip of a missing early return after a failed download
DownloadDone_GoesOn ==
    /\ pc = "Downloading"
    /\ rt.status = "returned"
    /\ IF IsNone(rt.result)
       THEN pc' = "Crashed" /\ UNCHANGED <<audio_file, printed>>
       ELSE /\ audio_file' = rt.result.val[1]
            /\ pc' = "Gate1"
            /\ printed' = IF IsNone(rt.result.val[1])
                          THEN printed \cup {"download error"} ELSE printed
    /\ rt' = NoRetry
    /\ outcomes' = <<>>
    /\ UNCHANGED <<fragments, youtube_url, sp, audio, audio_segments, seg,
                   full_transcript, cleaned_text, files, calls, gates>>

\* the slip of a missing input() after the download: the first gate is
\* not waited for
DownloadDone_NoGate ==
    /\ pc = "Downloading"
    /\ rt.status = "returned"
    /\ IF IsNone(rt.result)
       THEN pc' = "Crashed" /\ UNCHANGED <<audio_file, printed>>
       ELSE /\ audio_file' = rt.result.val[1]
            /\ IF IsNone(rt.result.val[1])
               THEN /\ printed' = printed \cup {"download error"}
                    /\ pc' = "Failed"
               ELSE /\ printed' = printed
                    /\ pc' = "QualityChecking"
    /\ rt' = NoRetry
    /\ outcomes' = <<>>
    /\ UNCHANGED <<fragments, youtube_url, sp, audio, audio_segments, seg,
                   full_transcript, cleaned_text, files, calls, gates>>

\* lines 129-132: retry() has returned; its result is unpacked into
\* audio_file, video_id.  Unpacking None raises a TypeError nothing catches.
DownloadDone ==
    /\ pc = "Downloading"
    /\ rt.status = "returned"
    /\ IF IsNone(rt.result)
       THEN pc' = "Crashed" /\ UNCHANGED <<audio_file, printed>>
       ELSE /\ audio_file' = rt.result.val[1]
            /\ IF IsNone(rt.result.val[1])
               THEN /\ printed' = printed \cup {"download error"}
                    /\ pc' = "Failed"
               ELSE /\ printed' = printed
                    /\ pc' = "Gate1"
    /\ rt' = NoRetry
    /\ outcomes' = <<>>
    /\ UNCHANGED <<fragments, youtube_url, sp, audio, audio_segments, seg,
                   full_transcript, cleaned_text, files, calls, gates>>

\* line 134: input() returns
ConfirmDownload ==
    /\ pc = "Gate1"
    /\ gates' = gates + 1
    /\ pc' = "QualityChecking"
    /\ UNCHANGED <<fragments, outcomes, youtube_url, rt, sp, audio, audio_file,
                   audio_segments,
                   seg, full_transcript, cleaned_text, files, calls,
                   printed>>

\* the slip of an advisory check that ends the run on low quality
CheckQuality_LowFails ==
    /\ pc = "QualityChecking"
    /\ calls' = [calls EXCEPT !.quality = @ + 1]
    /\ \E readOk \in BOOLEAN, low \in BOOLEAN :
         IF readOk
         THEN /\ pc' = IF low THEN "Failed" ELSE "Segmenting"
              /\ printed' = printed \cup
                              {IF low THEN "quality low" ELSE "quality ok"}
         ELSE /\ pc' = "Crashed"
              /\ low
              /\ printed' = printed
    /\ UNCHANGED <<fragments, outcomes, youtube_url, rt, sp, audio,
                   audio_file, audio_segments, seg, full_transcript,
                   cleaned_text, files, gates>>

\* line 136, check_audio_quality (lines 41-47): sf.read may raise, which
\* nothing catches; otherwise one of the two messages is printed.
CheckQuality ==
    /\ pc = "QualityChecking"
    /\ calls' = [calls EXCEPT !.quality = @ + 1]
    /\ \E readOk \in BOOLEAN, low \in BOOLEAN :
         IF readOk
         THEN /\ pc' = "Segmenting"
              /\ printed' = printed \cup
                              {IF low THEN "quality low" ELSE "quality ok"}
         ELSE /\ pc' = "Crashed"
              /\ low
              /\ printed' = printed
    /\ UNCHANGED <<fragments, outcomes, youtube_url, rt, sp, audio, audio_file,
                   audio_segments,
                   seg, full_transcript, cleaned_text, files, gates>>

\* line 137, split_long_audio(audio_file) with the default max_duration:
\* sf.read or one of the sf.write calls may raise, which nothing catches;
\* failAt = 0 is the run where none does, failAt = k the run where the
\* write of the k-th file of Written raises, failAt = -1 the read raising.
Segment ==
    /\ pc = "Segmenting"
    /\ calls' = [calls EXCEPT !.split = @ + 1]
    /\ LET result == split_long_audio(Samples(audio.n), audio.rate,
                                      DefaultMaxDuration)
           out == SummaryOf(Written(result))
       IN \E failAt \in -1 .. Len(out) :
            IF failAt = 0
            THEN /\ audio_segments' = SummaryOf(result)
                 /\ files' = [files EXCEPT !.segments = out]
                 /\ pc' = "Gate2"
            ELSE /\ audio_segments' = audio_segments
                 /\ files' = [files EXCEPT !.segments =
                                IF failAt = -1 THEN <<>>
                                ELSE SubSeq(out, 1, failAt - 1)]
                 /\ pc' = "Crashed"
    /\ UNCHANGED <<fragments,
                   outcomes, youtube_url, rt, sp, audio, audio_file, seg,
                   full_transcript, cleaned_text, gates, printed>>

\* lines 139-142: input() returns, full_transcript = "", and the loop
\* enters retry() for the first segment (the list is never empty)
ConfirmQuality ==
    /\ pc = "Gate2"
    /\ gates' = gates + 1
    /\ pc' = "Transcribing"
    /\ full_transcript' = <<>>
    /\ seg' = 0
    /\ rt' = RetryStart("transcribe_audio_with_eta", PipelineAttempts,
                        PipelineWait)
    /\ calls' = [calls EXCEPT !.transcribe = Append(@, 0)]
    /\ outcomes' = <<>>
    /\ UNCHANGED <<fragments,
                   youtube_url, sp, audio, audio_file, audio_segments,
                   cleaned_text, files, printed>>

\* one iteration of retry(transcribe_audio_with_eta, 3, 5, segment)
TranscribeAttempt ==
    /\ pc = "Transcribing"
    /\ RetryRunning
    /\ \E ok \in BOOLEAN, text \in Fragments :
         /\ rt' = retry(rt, transcribe_audio_with_eta(ok, text))
         /\ outcomes' = Append(outcomes,
                               transcribe_audio_with_eta(ok, text))
         /\ fragments' = IF ok
                         THEN Append(fragments,
                                     [ordinal |-> seg + 1, text |-> text])
                         ELSE fragments
    /\ calls' = [calls EXCEPT !.transcribe[seg + 1] = @ + 1]
    /\ UNCHANGED <<pc, youtube_url, sp, audio, audio_file, audio_segments,
                   seg, full_transcript, cleaned_text, files, gates,
                   printed>>

\* the slip of a loop that skips a failed segment instead of returning
TranscribeDone_SkipsFailed ==
    /\ pc = "Transcribing"
    /\ rt.status = "returned"
    /\ printed' = IF IsNone(rt.result)
                  THEN printed \cup {"transcription error"} ELSE printed
    /\ full_transcript' = IF IsNone(rt.result) THEN full_transcript
                          ELSE full_transcript \o rt.result.val \o <<"\n">>
    /\ seg' = seg + 1
    /\ IF seg + 1 < Len(audio_segments)
       THEN /\ rt' = RetryStart("transcribe_audio_with_eta",
                                PipelineAttempts, PipelineWait)
            /\ calls' = [calls EXCEPT !.transcribe = Append(@, 0)]
            /\ pc' = pc
       ELSE /\ rt' = NoRetry
            /\ calls' = calls
            /\ pc' = "Gate3"
    /\ outcomes' = <<>>
    /\ UNCHANGED <<fragments,
                   youtube_url, sp, audio, audio_file, audio_segments,
                   cleaned_text, files, gates>>

\* the slip of an append without the separating newline
TranscribeDone_NoNewline ==
    /\ pc = "Transcribing"
    /\ rt.status = "returned"
    /\ IF IsNone(rt.result)
       THEN /\ printed' = printed \cup {"transcription error"}
            /\ pc' = "Failed"
            /\ rt' = NoRetry
            /\ UNCHANGED <<full_transcript, seg, calls>>
       ELSE /\ printed' = printed
            /\ full_transcript' = full_transcript \o rt.result.val
            /\ seg' = seg + 1
            /\ IF seg + 1 < Len(audio_segments)
               THEN /\ rt' = RetryStart("transcribe_audio_with_eta",
                                        PipelineAttempts, PipelineWait)
                    /\ calls' = [calls EXCEPT !.transcribe = Append(@, 0)]
                    /\ pc' = pc
               ELSE /\ rt' = NoRetry
                    /\ calls' = calls
                    /\ pc' = "Gate3"
    /\ outcomes' = <<>>
    /\ UNCHANGED <<fragments, youtube_url, sp, audio, audio_file,
                   audio_segments, cleaned_text, files, gates>>

\* the slip of an attempt counter shared by the calls of retry(): the next
\* segment starts with the attempts the last one has used
TranscribeDone_SharedBudget ==
    /\ pc = "Transcribing"
    /\ rt.status = "returned"
    /\ IF IsNone(rt.result)
       THEN /\ printed' = printed \cup {"transcription error"}
            /\ pc' = "Failed"
            /\ rt' = NoRetry
            /\ UNCHANGED <<full_transcript, seg, calls>>
       ELSE /\ printed' = printed
            /\ full_transcript' = full_transcript \o rt.result.val
                                                  \o <<"\n">>
            /\ seg' = seg + 1
            /\ IF seg + 1 < Len(audio_segments)
               THEN /\ rt' = [RetryStart("transcribe_audio_with_eta",
                                         PipelineAttempts, PipelineWait)
                                EXCEPT !.attempt = rt.attempt]
                    /\ calls' = [calls EXCEPT !.transcribe = Append(@, 0)]
                    /\ pc' = pc
               ELSE /\ rt' = NoRetry
                    /\ calls' = calls
                    /\ pc' = "Gate3"
    /\ outcomes' = <<>>
    /\ UNCHANGED <<fragments, youtube_url, sp, audio, audio_file,
                   audio_segments, cleaned_text, files, gates>>

\* lines 143-147: retry() has returned for the current segment; on None
\* the function returns, otherwise the text and a newline are appended and
\* the loop goes to the next segment or ends.
TranscribeDone ==
    /\ pc = "Transcribing"
    /\ rt.status = "returned"
    /\ IF IsNone(rt.result)
       THEN /\ printed' = printed \cup {"transcription error"}
            /\ pc' = "Failed"
            /\ rt' = NoRetry
            /\ UNCHANGED <<full_transcript, seg, calls>>
       ELSE /\ printed' = printed
            /\ full_transcript' = full_transcript \o rt.result.val
                                                  \o <<"\n">>
            /\ seg' = seg + 1
            /\ IF seg + 1 < Len(audio_segments)
               THEN /\ rt' = RetryStart("transcribe_audio_with_eta",
                                        PipelineAttempts, PipelineWait)
                    /\ calls' = [calls EXCEPT !.transcribe = Append(@, 0)]
                    /\ pc' = pc
               ELSE /\ rt' = NoRetry
                    /\ calls' = calls
                    /\ pc' = "Gate3"
    /\ outcomes' = <<>>
    /\ UNCHANGED <<fragments,
                   youtube_url, sp, audio, audio_file, audio_segments,
                   cleaned_text, files, gates>>

\* line 149 and the entry of retry() of line 151
ConfirmTranscription ==
    /\ pc = "Gate3"
    /\ gates' = gates + 1
    /\ pc' = "Cleaning"
    /\ rt' = RetryStart("clean_text", PipelineAttempts, PipelineWait)
    /\ outcomes' = <<>>
    /\ UNCHANGED <<fragments,
                   youtube_url, sp, audio, audio_file, audio_segments, seg,
                   full_transcript, cleaned_text, files, calls, printed>>

\* one iteration of retry(clean_text, 3, 5, full_transcript)
CleanAttempt ==
    /\ pc = "Cleaning"
    /\ RetryRunning
    /\ \E ok \in BOOLEAN, generated \in CleanOutputs(full_transcript) :
         /\ rt' = retry(rt, clean_text(full_transcript, ok, generated))
         /\ outcomes' = Append(outcomes,
                               clean_text(full_transcript, ok, generated))
         /\ calls' = [calls EXCEPT
                        !.clean = @ + 1,
                        !.cleanFailed = IF ok THEN @ ELSE @ + 1]
    /\ UNCHANGED <<fragments,
                   pc, youtube_url, sp, audio, audio_file, audio_segments,
                   seg, full_transcript, cleaned_text, files, gates,
                   printed>>

\* line 151: cleaned_text = the value retry() returned
CleanDone ==
    /\ pc = "Cleaning"
    /\ rt.status = "returned"
    /\ cleaned_text' = rt.result
    /\ rt' = NoRetry
    /\ pc' = "Persisting"
    /\ outcomes' = <<>>
    /\ UNCHANGED <<fragments,
                   youtube_url, sp, audio, audio_file, audio_segments, seg,
                   full_transcript, files, calls, gates, printed>>

\* the outcomes of open(..., "w") followed by f.write(text): both succeed,
\* open raises (no file), or write raises (the file exists and is empty)
WriteOutcomes == {"ok", "open raises", "write raises"}

\* what is in the file after an attempt to write text
FileAfter(outcome, text, before) ==
    IF outcome = "ok" THEN Some(text)
    ELSE IF outcome = "write raises" THEN Some(<<>>)
    ELSE before

\* the slip of a failed write of transcript.txt that ends the run
SaveTranscript_Aborts ==
    /\ pc = "Persisting"
    /\ \E outcome \in WriteOutcomes :
         /\ files' = [files EXCEPT !.transcript =
                        FileAfter(outcome, full_transcript, @)]
         /\ printed' = printed \cup
                         {IF outcome = "ok" THEN "transcript saved"
                          ELSE "transcript save error"}
         /\ pc' = IF outcome = "ok" THEN "PersistingCleaned" ELSE "Failed"
    /\ UNCHANGED <<fragments, outcomes, youtube_url, rt, sp, audio,
                   audio_file, audio_segments, seg, full_transcript,
                   cleaned_text, calls, gates>>

\* lines 153-159: transcript.txt
SaveTranscript ==
    /\ pc = "Persisting"
    /\ \E outcome \in WriteOutcomes :
         /\ files' = [files EXCEPT !.transcript =
                        FileAfter(outcome, full_transcript, @)]
         /\ printed' = printed \cup
                         {IF outcome = "ok" THEN "transcript saved"
                          ELSE "transcript save error"}
    /\ pc' = "PersistingCleaned"
    /\ UNCHANGED <<fragments, outcomes, youtube_url, rt, sp, audio, audio_file,
                   audio_segments,
                   seg, full_transcript, cleaned_text, calls, gates>>

\* lines 162-172: cleaned_transcript.txt, then the total time.  f.write of
\* a None raises the TypeError a failed write raises.
SaveCleaned ==
    /\ pc = "PersistingCleaned"
    /\ \E outcome \in WriteOutcomes :
         /\ IsNone(cleaned_text) => outcome # "ok"
         /\ files' = [files EXCEPT !.cleaned =
                        FileAfter(outcome, cleaned_text.val, @)]
         /\ printed' = printed \cup
                         {IF outcome = "ok" THEN "cleaned saved"
                          ELSE "cleaned save error",
                          "total time"}
    /\ pc' = "Done"
    /\ UNCHANGED <<fragments, outcomes, youtube_url, rt, sp, audio, audio_file,
                   audio_segments,
                   seg, full_transcript, cleaned_text, calls, gates>>

Next ==
    \/ Validate
    \/ DownloadAttempt
    \/ DownloadDone
    \/ ConfirmDownload
    \/ CheckQuality
    \/ Segment
    \/ ConfirmQuality
    \/ TranscribeAttempt
    \/ TranscribeDone
    \/ ConfirmTranscription
    \/ CleanAttempt
    \/ CleanDone
    \/ SaveTranscript
    \/ SaveCleaned

Spec == Init /\ [][Next]_vars

----------------------------------------------------------------------------
(* retry() on an arbitrary function *)

\* the pauses retry() is called with
WaitTimes == {0, 5}

\* the exceptions the function under retry() can raise
HarnessErrors == {"e1", "e2"}

\* an outcome of one call of a function: it raised the exception e
RaisedError(e) == [raised |-> TRUE, value |-> Some(e)]

\* what the function under retry() can return
HarnessValues == {Some("v1"), Some("v2"), None}

InitRetry ==
    /\ pc = "retry"
    /\ \E m \in 1 .. MaxAttempts, w \in WaitTimes :
         rt = RetryStart("func", m, w)
    /\ outcomes = <<>>
    /\ fragments = <<>>
    /\ youtube_url = <<>>
    /\ sp = NoSplit
    /\ audio = NoAudio
    /\ audio_file = None
    /\ audio_segments = <<>>
    /\ seg = 0
    /\ full_transcript = <<>>
    /\ cleaned_text = None
    /\ files = NoFiles
    /\ calls = NoCalls
    /\ gates = 0
    /\ printed = {}

\* one iteration of the loop of retry(): func raises an exception or returns
\* a value
RetryCall ==
    /\ pc = "retry"
    /\ RetryRunning
    /\ \E o \in {RaisedError(e) : e \in HarnessErrors}
                 \cup {Returned(v) : v \in HarnessValues} :
         /\ rt' = retry(rt, o)
         /\ outcomes' = Append(outcomes, o)
    /\ UNCHANGED <<fragments,
                   pc, youtube_url, sp, audio, audio_file, audio_segments,
                   seg, full_transcript, cleaned_text, files, calls, gates,
                   printed>>

NextRetry == RetryCall

SpecRetry == InitRetry /\ [][NextRetry]_vars

----------------------------------------------------------------------------
(* split_long_audio() on an arbitrary buffer *)

InitSplit ==
    /\ pc = "split"
    /\ \E n \in 0 .. MaxSamples, r \in 1 .. MaxRate, w \in 1 .. MaxWindow :
         sp = [data |-> Samples(n), sample_rate |-> r, max_duration |-> w,
               status |-> "ready", segments |-> <<>>, written |-> <<>>]
    /\ rt = NoRetry
    /\ outcomes = <<>>
    /\ fragments = <<>>
    /\ youtube_url = <<>>
    /\ audio = NoAudio
    /\ audio_file = None
    /\ audio_segments = <<>>
    /\ seg = 0
    /\ full_transcript = <<>>
    /\ cleaned_text = None
    /\ files = NoFiles
    /\ calls = NoCalls
    /\ gates = 0
    /\ printed = {}

\* the call: as in Segment, failAt = 0 is the run where no read or write
\* raises, failAt = k the run where the k-th write raises, failAt = -1 the
\* run where the read raises.
SplitCall ==
    /\ pc = "split"
    /\ sp.status = "ready"
    /\ LET result == split_long_audio(sp.data, sp.sample_rate,
                                      sp.max_duration)
           out == Written(result)
       IN \E failAt \in -1 .. Len(out) :
            sp' = IF failAt = 0
                  THEN [sp EXCEPT !.status = "returned",
                                  !.segments = result, !.written = out]
                  ELSE [sp EXCEPT !.status = "raised",
                                  !.written = IF failAt = -1 THEN <<>>
                                              ELSE SubSeq(out, 1, failAt - 1)]
    /\ UNCHANGED <<fragments, outcomes, pc, youtube_url, rt, audio, audio_file,
                   audio_segments,
                   seg, full_transcript, cleaned_text, files, calls, gates,
                   printed>>

NextSplit == SplitCall

SpecSplit == InitSplit /\ [][NextSplit]_vars

----------------------------------------------------------------------------
(* Properties of retry(), over the behaviours of SpecRetry *)

\* func raised on each of its first n calls
RaisedFirst(n) == \A j \in 1 .. n : outcomes[j].raised

\* the log of n failed calls with a pause after each but the last
RECURSIVE FailLog(_)
FailLog(n) ==
    IF n <= 1 THEN (IF n = 1 THEN <<"raise">> ELSE <<>>)
    ELSE <<"raise", "sleep">> \o FailLog(n - 1)

\* C1: for every k with 1 <= k <= max_attempts, if func raises on its first
\* k-1 calls and returns a value on its k-th call, retry invokes func
\* exactly k times, pauses exactly k-1 times (wait_time each), returns that
\* value, and makes no further invocation after the success.
C1_RetryReturnsOnKthCall ==
    \A k \in 1 .. rt.max_attempts :
        (/\ Len(outcomes) >= k
         /\ RaisedFirst(k - 1)
         /\ ~outcomes[k].raised)
        => /\ Len(outcomes) = k
           /\ Invocations(rt) = k
           /\ Pauses(rt) = k - 1
           /\ rt.slept = (k - 1) * rt.wait_time
           /\ rt.log[Len(rt.log)] = "return"
           /\ rt.status = "returned"
           /\ rt.result = outcomes[k].value
           /\ ~ENABLED RetryCall

\* a call that failed twice and returned a value on its third call
C1_Witness ==
    /\ pc = "retry"
    /\ rt.max_attempts > 3
    /\ Len(outcomes) = 3
    /\ RaisedFirst(2)
    /\ ~outcomes[3].raised
    /\ ~IsNone(outcomes[3].value)
    /\ rt.status = "returned"

\* C2: if func raises on every call, retry invokes func exactly
\* max_attempts times, pauses wait_time only between consecutive attempts
\* (max_attempts-1 pauses, none after the last failure), and then returns
\* None.
C2_RetryExhausted ==
    RaisedFirst(Len(outcomes))
    => /\ Len(outcomes) <= rt.max_attempts
       /\ Invocations(rt) = Len(outcomes)
       /\ IF Len(outcomes) < rt.max_attempts
          THEN \* more attempts remain: a pause follows every failure
               /\ rt.status = "running"
               /\ ENABLED RetryCall
               /\ rt.log \o <<"raise">> = FailLog(Len(outcomes) + 1)
          ELSE \* the budget is spent
               /\ rt.status = "returned"
               /\ ~ENABLED RetryCall
               /\ IsNone(rt.result)
               /\ rt.log = FailLog(rt.max_attempts)
               /\ Pauses(rt) = rt.max_attempts - 1
               /\ rt.slept = (rt.max_attempts - 1) * rt.wait_time

\* a call whose every attempt failed, with more than one attempt
C2_Witness ==
    /\ pc = "retry"
    /\ rt.max_attempts = 3
    /\ rt.wait_time = 5
    /\ Len(outcomes) = 3
    /\ RaisedFirst(3)
    /\ rt.status = "returned"

----------------------------------------------------------------------------
(* Properties of process_youtube_video, over the behaviours of Spec *)

\* the run is over: nothing more is done
Ended == ~ENABLED Next

\* no transcript file has been written or created
NoTranscriptFiles == IsNone(files.transcript) /\ IsNone(files.cleaned)

\* the download stage was entered and no call of the download collaborator
\* has succeeded
DownloadFailed == calls.download > 0 /\ ~audio.present

\* the cleanup stage was entered and no call of the cleanup collaborator
\* has succeeded
CleanupFailed == calls.clean > 0 /\ calls.cleanFailed = calls.clean

\* the positions after the return of retry(clean_text, ...)
AfterCleaning == pc \in {"Persisting", "PersistingCleaned", "Done"}

\* C3: the download collaborator is retried with a budget of 3 attempts: a
\* download that fails on its first and second attempt and succeeds on its
\* third lets the pipeline proceed, and the pipeline ends Failed with
\* "download error" only after 3 failed download attempts.
C3_DownloadFailsOnlyAfterThreeAttempts ==
    (pc = "Failed" /\ "download error" \in printed)
    => calls.downloadFailed = PipelineAttempts

\* C4: in every run in which the download fails, the pipeline reports a
\* download error and ends without running the quality check, the
\* segmentation, a transcription call or the cleanup call, without passing
\* a checkpoint gate and without writing transcript.txt or
\* cleaned_transcript.txt.
C4_DownloadFailureEndsRun ==
    DownloadFailed
    => /\ pc \in {"Downloading", "Failed"}
       /\ pc = "Failed" => ("download error" \in printed /\ Ended)
       /\ calls.quality = 0
       /\ calls.split = 0
       /\ calls.transcribe = <<>>
       /\ calls.clean = 0
       /\ gates = 0
       /\ files.segments = <<>>
       /\ NoTranscriptFiles

\* a run ended by a failed download
C4_Witness ==
    /\ pc = "Failed"
    /\ DownloadFailed
    /\ "download error" \in printed

\* the retry() of the current segment has spent its attempts
TranscriptionExhausted ==
    /\ pc = "Transcribing"
    /\ rt.status = "returned"
    /\ IsNone(rt.result)

\* C5: as soon as one segment's transcription exhausts its 3 attempts the
\* pipeline ends Failed with "transcription error": no later segment is
\* transcribed, the cleanup collaborator is never called and neither
\* transcript.txt nor cleaned_transcript.txt is written, whatever number of
\* earlier segments were transcribed.
C5_TranscriptionFailureEndsRun ==
    /\ "transcription error" \in printed => (pc = "Failed" /\ Ended)
    /\ (TranscriptionExhausted \/ "transcription error" \in printed)
       => /\ Len(calls.transcribe) = seg + 1
          /\ calls.transcribe[seg + 1] = PipelineAttempts
          /\ \A i \in 1 .. seg : calls.transcribe[i] >= 1
          /\ Len(full_transcript) >= seg
          /\ calls.clean = 0
          /\ gates = 2
          /\ NoTranscriptFiles

\* the second of three segments failed after the first was transcribed
C5_Witness ==
    /\ pc = "Failed"
    /\ "transcription error" \in printed
    /\ Len(audio_segments) = 3
    /\ seg = 1
    /\ full_transcript # <<>>

\* C6: when the cleanup collaborator fails, the pipeline does not fail: it
\* reaches Persisting, and the content written to cleaned_transcript.txt is
\* identical to the content written to transcript.txt, the unmodified
\* assembled transcript.
C6_CleanupFailureFallsBack ==
    CleanupFailed
    => /\ pc = "Cleaning" \/ AfterCleaning
       /\ (pc = "Cleaning" /\ rt.status = "returned")
          => (~IsNone(rt.result) /\ rt.result.val = full_transcript)
       /\ AfterCleaning
          => (~IsNone(cleaned_text) /\ cleaned_text.val = full_transcript)
       /\ "transcript saved" \in printed
          => files.transcript = Some(full_transcript)
       /\ "cleaned saved" \in printed
          => files.cleaned = Some(full_transcript)

\* a finished run whose cleanup failed and whose two files were written
C6_Witness ==
    /\ pc = "Done"
    /\ CleanupFailed
    /\ {"transcript saved", "cleaned saved"} \subseteq printed
    /\ files.cleaned = files.transcript
    /\ Len(audio_segments) = 2

\* C7: the cleanup collaborator is retried with a budget of 3 attempts: a
\* cleanup that fails on its first attempt is retried, and the fallback to
\* the unmodified transcript is taken only after 3 failed cleanup attempts.
C7_FallbackOnlyAfterThreeAttempts ==
    (AfterCleaning /\ CleanupFailed) => calls.cleanFailed = PipelineAttempts

\* C8: when is_valid_youtube_url rejects the locator, the run reports an
\* invalid locator and ends at once: validation has run exactly once, the
\* download collaborator is never invoked, no gate is reached and no audio,
\* segment or transcript file is written.
C8_InvalidLocatorEndsRun ==
    (pc # "Validating" /\ ~is_valid_youtube_url(youtube_url))
    => /\ pc = "Failed"
       /\ Ended
       /\ printed = {"invalid url"}
       /\ calls = [NoCalls EXCEPT !.validate = 1]
       /\ rt = NoRetry
       /\ gates = 0
       /\ ~audio.present
       /\ files = NoFiles

\* the run on "not-a-url" has been rejected
C8_Witness ==
    /\ youtube_url = LitNotAUrl
    /\ pc = "Failed"
    /\ "invalid url" \in printed

----------------------------------------------------------------------------
(* Properties of split_long_audio, over the behaviours of SpecSplit *)

\* the samples of one window: W * R
WindowSamples == sp.max_duration * sp.sample_rate

\* the concatenation of the samples of a list of segments, in order
RECURSIVE Concat(_)
Concat(segments) ==
    IF segments = <<>> THEN <<>>
    ELSE segments[1].samples \o Concat(Tail(segments))

\* the call under test splits: N > W * R
Splits == Len(sp.data) > WindowSamples

\* C9: on N > W*R samples split_long_audio returns exactly ceil(N/(W*R))
\* segments with ordinals 1..n in order, segment i+1 holding the samples
\* [i*W*R, min((i+1)*W*R, N)); their concatenation in ordinal order is the
\* original sample sequence, no sample duplicated and none missing.
C9_SplitCoversEverySampleOnce ==
    (sp.status = "returned" /\ Splits)
    => LET n == Len(sp.segments)
           N == Len(sp.data)
       IN /\ (n - 1) * WindowSamples < N
          /\ N <= n * WindowSamples
          /\ \A i \in 0 .. n - 1 :
               LET lo == i * WindowSamples
                   hi == IF (i + 1) * WindowSamples < N
                         THEN (i + 1) * WindowSamples ELSE N
               IN /\ sp.segments[i + 1].path = i + 1
                  /\ Len(sp.segments[i + 1].samples) = hi - lo
                  /\ \A j \in 1 .. hi - lo :
                       sp.segments[i + 1].samples[j] = sp.data[lo + j]
          /\ Concat(sp.segments) = sp.data
          /\ sp.written = sp.segments

\* two windows exactly (the 1200 s asset with a 600 s window, scaled to a
\* window of 3 s at 2 Hz): two segments, the second the second half
C9_Witness ==
    /\ sp.status = "returned"
    /\ sp.max_duration = 3
    /\ sp.sample_rate = 2
    /\ Len(sp.data) = 2 * WindowSamples
    /\ Len(sp.segments) = 2
    /\ sp.segments[2].samples = <<7, 8, 9, 10, 11, 12>>

\* C10: on an asset whose duration is at most max_duration, including one
\* of exactly max_duration, split_long_audio returns exactly one segment,
\* the original asset unchanged, and writes no segment file.
C10_ShortAssetIsReturnedWhole ==
    (sp.status # "ready" /\ ~Splits)
    => /\ sp.written = <<>>
       /\ sp.status = "returned"
          => sp.segments = <<[path |-> 0, samples |-> sp.data]>>

\* an asset of exactly max_duration seconds came back whole
C10_Witness ==
    /\ sp.status = "returned"
    /\ Len(sp.data) = WindowSamples
    /\ Len(sp.segments) = 1
    /\ sp.segments[1].samples = sp.data

----------------------------------------------------------------------------
(* Further properties of process_youtube_video, over the behaviours of Spec *)

\* the fragments in order, each followed by one newline
RECURSIVE Join(_)
\* the calls of the retry() in progress that raised
FailedCalls == Cardinality({j \in DOMAIN outcomes : outcomes[j].raised})

Join(frs) ==
    IF frs = <<>> THEN <<>>
    ELSE frs[1].text \o <<"\n">> \o Join(Tail(frs))

\* the positions after the transcription loop has ended normally
TranscriptionComplete ==
    pc \in {"Gate3", "Cleaning", "Persisting", "PersistingCleaned", "Done"}

\* C11: in every run that completes transcription the assembled transcript
\* is the fragments of segments 1..n in ascending ordinal order, each
\* followed by exactly one newline, one fragment per segment whatever the
\* retries each segment needed; this string is what is written to
\* transcript.txt.
C11_TranscriptIsFragmentsInOrder ==
    /\ pc = "Transcribing"
       => full_transcript = Join(SubSeq(fragments, 1, seg))
    /\ TranscriptionComplete
       => /\ Len(fragments) = Len(audio_segments)
          /\ \A i \in 1 .. Len(fragments) : fragments[i].ordinal = i
          /\ full_transcript = Join(fragments)
    /\ "transcript saved" \in printed
       => files.transcript = Some(Join(fragments))

\* three segments that needed 1, 3 and 2 calls gave "a", "b", "a"
C11_Witness ==
    /\ pc = "Done"
    /\ "transcript saved" \in printed
    /\ calls.transcribe = <<1, 3, 2>>
    /\ files.transcript = Some(<<"a", "\n", "b", "\n", "a", "\n">>)

\* the positions of the thread of control inside a stage; a checkpoint gate
\* belongs to the stage it follows
Staged ==
    {"Validating", "Downloading", "Gate1", "QualityChecking", "Segmenting",
     "Gate2", "Transcribing", "Gate3", "Cleaning", "Persisting",
     "PersistingCleaned", "Done"}

\* the rank of the stage of a position in the order Validating,
\* Downloading, QualityChecking, Segmenting, Transcribing, Cleaning,
\* Persisting, Done
Stage(p) ==
    CASE p = "Validating" -> 1
      [] p \in {"Downloading", "Gate1"} -> 2
      [] p = "QualityChecking" -> 3
      [] p \in {"Segmenting", "Gate2"} -> 4
      [] p \in {"Transcribing", "Gate3"} -> 5
      [] p = "Cleaning" -> 6
      [] p \in {"Persisting", "PersistingCleaned"} -> 7
      [] p = "Done" -> 8

\* C12: every run visits the stages only in the forward order Validating,
\* Downloading, QualityChecking, Segmenting, Transcribing, Cleaning,
\* Persisting, Done, never going back and never skipping one; Failed is
\* entered only from Validating, Downloading or Transcribing; Done and
\* Failed have no outgoing transition.  (An exception nothing catches ends
\* the process where it stands and enters no stage.)
C12_StagesInForwardOrder ==
    [][/\ pc \notin {"Done", "Failed", "Crashed"}
       /\ \/ /\ pc' \in Staged
             /\ Stage(pc') \in {Stage(pc), Stage(pc) + 1}
          \/ /\ pc' = "Failed"
             /\ pc \in {"Validating", "Downloading", "Transcribing"}
          \/ pc' = "Crashed"]_vars

\* a run that went through every stage, with three segments
C12_Witness ==
    /\ pc = "Done"
    /\ gates = 3
    /\ Len(audio_segments) = 3
    /\ calls.quality = 1
    /\ calls.split = 1
    /\ calls.clean = 1

\* the positions where the run waits in input()
Gates == {"Gate1", "Gate2", "Gate3"}

RECURSIVE Sum(_)
Sum(counts) ==
    IF counts = <<>> THEN 0 ELSE counts[1] + Sum(Tail(counts))

\* the collaborator calls made so far: download, audio read of the quality
\* check, segmentation, transcription, cleanup
Invoked(c) ==
    <<c.download, c.quality, c.split, Sum(c.transcribe), c.clean>>

\* C13: the pipeline never proceeds past a checkpoint gate without a
\* confirmation: the quality check does not start before the first
\* confirmation, no transcription call before the second, the cleanup call
\* not before the third; a run that reaches Done has passed exactly three
\* gates; while a gate is unconfirmed no collaborator call and no file
\* write happens.
C13_GatesAreWaitedFor ==
    /\ [](/\ gates \in 0 .. 3
          /\ pc = "Gate1" => gates = 0
          /\ pc = "Gate2" => gates = 1
          /\ pc = "Gate3" => gates = 2
          /\ (calls.quality > 0 \/ calls.split > 0
                \/ pc \in {"QualityChecking", "Segmenting"}) => gates >= 1
          /\ (Sum(calls.transcribe) > 0 \/ pc = "Transcribing")
               => gates >= 2
          /\ (calls.clean > 0 \/ pc = "Cleaning") => gates = 3
          /\ NoTranscriptFiles \/ gates = 3
          /\ pc = "Done" => gates = 3)
    /\ [][(pc \in Gates) => (gates' = gates + 1
                               /\ Invoked(calls') = Invoked(calls)
                               /\ files' = files)]_vars

\* the cleanup call made after the third confirmation
C13_Witness ==
    /\ pc = "Cleaning"
    /\ gates = 3
    /\ calls.clean = 1
    /\ rt.status = "returned"

\* exactly one of two messages has been printed
OneOf(a, b, out) == (a \in out) # (b \in out)

\* C14: in the Persisting stage a failure to write one artifact is reported
\* and does not abort the run: if writing transcript.txt fails, the write
\* of cleaned_transcript.txt is still attempted, and in every case the
\* pipeline reaches Done and reports the total elapsed time.
C14_WriteFailureDoesNotAbort ==
    /\ [][/\ (pc = "Persisting")
             => (pc' = "PersistingCleaned"
                 /\ OneOf("transcript saved", "transcript save error",
                          printed'))
          /\ (pc = "PersistingCleaned")
             => (pc' = "Done"
                 /\ "total time" \in printed'
                 /\ OneOf("cleaned saved", "cleaned save error",
                          printed'))]_vars
    /\ [](/\ pc \in {"Persisting", "PersistingCleaned"} => ~Ended
          /\ "transcript save error" \in printed
             => pc \in {"PersistingCleaned", "Done"}
          /\ "cleaned save error" \in printed => pc = "Done"
          /\ pc = "Done"
             => /\ "total time" \in printed
                /\ OneOf("transcript saved", "transcript save error",
                         printed)
                /\ OneOf("cleaned saved", "cleaned save error", printed))

\* the write of transcript.txt failed and cleaned_transcript.txt was
\* written all the same
C14_Witness ==
    /\ pc = "Done"
    /\ "transcript save error" \in printed
    /\ "cleaned saved" \in printed
    /\ "total time" \in printed
    /\ IsNone(files.transcript)
    /\ ~IsNone(files.cleaned)

\* the beginnings of the canonical forms: optional scheme, optional www.,
\* then the watch host and path or the short host
CanonicalPrefixes ==
    {scheme \o www \o host :
        scheme \in {<<>>, LitHttp, LitHttps},
        www \in {<<>>, LitWww},
        host \in {LitWatch, LitShort}}

\* url is, as a whole, a canonical prefix followed by an id of exactly
\* IdLen characters of the class
IsCanonical(url) ==
    \E prefix \in CanonicalPrefixes :
        /\ Len(url) = Len(prefix) + IdLen
        /\ SubSeq(url, 1, Len(prefix)) = prefix
        /\ \A j \in 1 .. IdLen : url[Len(prefix) + j] \in IdChars

\* C15: is_valid_youtube_url accepts only strings that are, as a whole, of
\* one of the two canonical forms with an id of exactly 11 characters of
\* [A-Za-z0-9_-]; every other string, one with a longer id or with extra
\* characters after the id included, is rejected.
C15_AcceptsOnlyCanonicalLocators ==
    (pc # "Validating" /\ "invalid url" \notin printed)
    => IsCanonical(youtube_url)

----------------------------------------------------------------------------
(* Further properties of retry(), over the behaviours of SpecRetry *)

\* every attempt of the call has failed and the call has returned
RetryFailed ==
    /\ pc = "retry"
    /\ rt.status = "returned"
    /\ Len(outcomes) = rt.max_attempts
    /\ RaisedFirst(Len(outcomes))

\* C16: retry returns a (result, error) outcome: when every attempt fails,
\* the terminal failure it returns carries the error of the last failed
\* attempt, so the caller can tell which error ended the call.
C16_FailureCarriesLastError ==
    RetryFailed
    => /\ ~IsNone(rt.result)
       /\ rt.result.val = outcomes[Len(outcomes)].value.val

----------------------------------------------------------------------------
(* Further properties of process_youtube_video, over the behaviours of Spec *)

\* C17: each segment's transcription gets its own fresh budget of 3
\* attempts: the failed attempts spent on a segment have no effect on a
\* later one, which is still attempted up to 3 times; a run where every
\* segment fails twice and succeeds on its third attempt reaches Cleaning.
C17_FreshBudgetPerSegment ==
    /\ \A i \in DOMAIN calls.transcribe :
         calls.transcribe[i] <= PipelineAttempts
    /\ pc = "Transcribing"
       => /\ Len(calls.transcribe) = seg + 1
          /\ Len(outcomes) = calls.transcribe[seg + 1]
          /\ rt.max_attempts = PipelineAttempts
          /\ rt.attempt = FailedCalls
          /\ rt.status = "running"
             => (FailedCalls < PipelineAttempts /\ ENABLED TranscribeAttempt)
          /\ TranscriptionExhausted => FailedCalls = PipelineAttempts

\* every one of three segments failed twice and succeeded on its third
\* attempt, and the run is in Cleaning
C17_Witness ==
    /\ pc = "Cleaning"
    /\ calls.transcribe = <<3, 3, 3>>
    /\ Len(fragments) = 3

\* the messages of the early returns of lines 126, 131 and 145
Diagnostics == {"invalid url", "download error", "transcription error"}

\* C18: no failure escapes process_youtube_video as an unhandled fault:
\* for a failure raised in any stage (download, the audio read of the
\* quality check, the audio read or a segment write of the segmentation,
\* transcription, cleanup, file writes) the run ends in Done or in a Failed
\* early return with a printed diagnostic.
C18_NoFailureEscapes ==
    /\ pc # "Crashed"
    /\ pc = "Failed" => printed \cap Diagnostics # {}

\* C19: with every collaborator call returning or raising and every gate
\* confirmed, every run ends in Done or Failed, and the collaborator calls
\* of a run are bounded by the retry budgets: at most 3 download calls, at
\* most 3 transcription calls per segment and at most 3 cleanup calls.
C19_RunsEndWithinBudgets ==
    /\ Ended => pc \in {"Done", "Failed"}
    /\ calls.download <= PipelineAttempts
    /\ Len(calls.transcribe) <= Len(audio_segments)
    /\ \A i \in DOMAIN calls.transcribe :
         calls.transcribe[i] <= PipelineAttempts
    /\ calls.clean <= PipelineAttempts

----------------------------------------------------------------------------
(* Further properties of split_long_audio, over the behaviours of SpecSplit *)

\* C20: when split_long_audio splits (N > W*R), every segment it writes is
\* non-empty, every segment except the last holds exactly W*R samples and
\* the last holds between 1 and W*R samples; no empty segment is handed to
\* the transcription stage.
C20_SegmentsAreNonEmpty ==
    Splits
    => /\ \A i \in DOMAIN sp.written :
            Len(sp.written[i].samples) \in 1 .. WindowSamples
       /\ sp.status = "returned"
          => LET n == Len(sp.segments)
             IN /\ n >= 2
                /\ \A i \in 1 .. n - 1 :
                     Len(sp.segments[i].samples) = WindowSamples
                /\ Len(sp.segments[n].samples) \in 1 .. WindowSamples
                /\ \A i \in 1 .. n : sp.segments[i].samples # <<>>

\* a split whose last segment is shorter than the window
C20_Witness ==
    /\ sp.status = "returned"
    /\ Splits
    /\ Len(sp.segments) = 3
    /\ Len(sp.segments[3].samples) = 1
    /\ WindowSamples > 1

====
